---- MODULE Spec2Model ----
(***************************************************************************)
(* A model of the trading-game engine of sim/src/game.rs: the GameState,   *)
(* the turn/round loop of game::play, the proposal/acceptance protocol,    *)
(* settlement in GameState::end_round and the snapshot taken by            *)
(* GameResult::from_state.                                                 *)
(*                                                                         *)
(* Quantities are f64 in the source; the model uses integers (every        *)
(* quantity the repository's own strategies produce is a whole number).    *)
(* Player ids are 0-based as in the source.  A panic (failed assert!,      *)
(* unwrap or index) is modelled by pc = "failed": the game yields no       *)
(* GameResult and the GameState is no longer observable.                   *)
(***************************************************************************)
EXTENDS Integers, Sequences, FiniteSets, TLC

VARIABLES
    deck,                     \* GameState.deck: Vec<Good>, consumed from the tail
    players,                  \* GameState.players: Vec<PlayerState>, indexed from 0
    lead,                     \* GameState.lead
    current_turn,             \* GameState.current_turn
    current_round,            \* GameState.current_round
    current_trade_proposals,  \* GameState.current_trade_proposals: HashMap<PlayerId, Trade>
    current_trades,           \* GameState.current_trades: Vec<Trade>
    past_trades,              \* GameState.past_trades: HashMap<i32, Vec<Trade>>
    pc,                       \* position of play(): turns, rounds, accept, settle, end_turn, done, failed
    trade_acceptances,        \* play()'s local Vec<bool> handed to end_round
    iter_order,               \* the order in which the HashMap current_trade_proposals iterates
    decisions,                \* history: what each addressee returned from accept_trades_as_non_lead
    settled,                  \* history: keys of the proposals the last end_round settled, in order
    n_proposed,               \* history: number of trades proposed so far in this game
    result,                   \* the GameResult play() returned, or NoResult
    rules,                    \* the GameRules handed to play(): its max_turns
    REGISTRY,                 \* player::REGISTRY: the registered player_type names
    configs,                  \* load_strategies' configs: the player_type of each configured seat
    num_players,              \* load_strategies' num_players
    strategies,               \* the roster load_strategies returned: Vec<Box<dyn PlayerStrategy>>
    at_init,                  \* history: each seat's strategy right after its init(), or NotInited
    roster_pc,                \* load_strategies: off, load, ready, failed
    stats,                    \* a Stats accumulator
    inserted                  \* history: the values added to stats, in order

vars == <<deck, players, lead, current_turn, current_round, current_trade_proposals,
          current_trades, past_trades, pc, trade_acceptances, iter_order, decisions,
          settled, n_proposed, result, rules, REGISTRY, configs, num_players,
          strategies, at_init, roster_pc, stats, inserted>>

\* The state of the roster construction and of the statistics, which a game leaves alone.
roster_vars == <<REGISTRY, configs, num_players, strategies, at_init, roster_pc>>

stats_vars == <<stats, inserted>>

play_vars == <<deck, players, lead, current_turn, current_round, current_trade_proposals,
               current_trades, past_trades, pc, trade_acceptances, iter_order, decisions,
               settled, n_proposed, result, rules>>

game == <<deck, players, lead, current_turn, current_round, current_trade_proposals,
          current_trades, past_trades>>

-----------------------------------------------------------------------------
(* Bounds of the model and the game's configuration.                       *)

\* Goods in the deck (GameRules.deck_size cards, all of non-money categories).
DeckLen == 2

\* Trades the strategies propose in one game, over all rounds.
MaxProposed == 2

\* Rounds of one turn that are told apart; beyond it a round is known by its parity.
RoundCap == 3

\* Entries of SimConfig.player_configs.
MaxConfigs == 3

\* Values added to one Stats.
MaxInserted == 4

\* GameRules.max_turns: the largest value played.
max_turns == 3

\* The values of GameRules.max_turns (an i32) the model plays: a negative one, none
\* at all, and more turns than the deck has goods.
MaxTurnsInputs == {-1, 0, max_turns}

\* GameRules.victory_threshold
victory_threshold == 5

\* GameRules.start_money
start_money == 2

\* SimConfig.num_players: the rosters the model plays.
NumPlayersInputs == {1, 2, 3}

\* The categories the model plays with, out of CATEGORIES; "money" is CATEGORIES[0].
CATEGORIES == {"money", "cars"}

\* The weights generate_preferences_deck deals to a non-money category.
PrefWeights == {1, 5}

NoResult == [turns |-> -1]

EmptyMap == <<>>

NumPlayers == Cardinality(DOMAIN players)

\* All orders in which a collection with key set S can be iterated.
Orders(S) == {s \in [1..Cardinality(S) -> S] : \A i, j \in 1..Cardinality(S) : s[i] = s[j] => i = j}

-----------------------------------------------------------------------------
(* Start state.                                                            *)

\* generate_players' per-seat fairness offset table.
OFFSET == <<0, 2, 0, 0, 0, 0, 1, 1, 1, 1, 1>>

generate_players(n, prefs) ==
    [p \in 0..(n - 1) |->
        [preferences |-> prefs[p],
         num_goods   |-> [c \in CATEGORIES |->
                            IF c = "money" THEN start_money + OFFSET[p + 1] * p ELSE 0]]]

\* Decks of goods of non-money categories, in any (shuffled) order.
Decks(lens) == UNION {[1..len -> CATEGORIES \ {"money"}] : len \in lens}

\* generate_deck: the same number of goods of every non-money category, shuffled; a
\* deck_size below the number of those categories gives the empty deck.
generate_deck == Decks({0, DeckLen})

\* Preference cards: money is worth 1, every other category one of the dealt weights.
generate_preferences_deck(n) ==
    [0..(n - 1) -> {f \in [CATEGORIES -> PrefWeights \cup {1}] :
                        /\ f["money"] = 1
                        /\ \A c \in CATEGORIES \ {"money"} : f[c] \in PrefWeights}]

\* Stats::new: nothing inserted yet (min and max are then the infinities).
Stats_new == [n |-> 0, min |-> "inf", max |-> "-inf", avg |-> <<0, 1>>, sum_2 |-> <<0, 1>>]

\* The roster construction and the statistics at rest, while a game is played.
RosterOff ==
    /\ REGISTRY = {}
    /\ configs = <<>>
    /\ num_players = 0
    /\ strategies = <<>>
    /\ at_init = <<>>
    /\ roster_pc = "off"

StatsOff ==
    /\ stats = Stats_new
    /\ inserted = <<>>

\* generate_start_state, and play()'s arguments and locals before the first turn.
StartState(decks, max_turns_inputs) ==
    /\ \E n \in NumPlayersInputs : \E prefs \in generate_preferences_deck(n) :
           players = generate_players(n, prefs)
    /\ deck \in decks
    /\ lead = 0
    /\ current_turn = 0
    /\ current_round = 0
    /\ current_trade_proposals = EmptyMap
    /\ current_trades = <<>>
    /\ past_trades = EmptyMap
    /\ pc = "turns"
    /\ trade_acceptances = <<>>
    /\ iter_order = <<>>
    /\ decisions = EmptyMap
    /\ settled = <<>>
    /\ n_proposed = 0
    /\ result = NoResult
    /\ rules \in [max_turns : max_turns_inputs]

Init ==
    /\ StartState(generate_deck, MaxTurnsInputs)
    /\ RosterOff
    /\ StatsOff

-----------------------------------------------------------------------------
(* Scoring and the result snapshot.                                        *)

RECURSIVE SumOver(_, _)
SumOver(f, S) ==
    IF S = {} THEN 0
    ELSE LET x == CHOOSE y \in S : TRUE IN f[x] + SumOver(f, S \ {x})

\* PlayerState::score
score(ps) == SumOver([c \in DOMAIN ps.num_goods |-> ps.num_goods[c] * ps.preferences[c]],
                     DOMAIN ps.num_goods)

\* A max_by_key that keeps the first of several equal maxima.
RECURSIVE max_by_key_first(_, _, _, _)
max_by_key_first(key, i, n, best) ==
    IF i >= n THEN best
    ELSE max_by_key_first(key, i + 1, n, IF key[i] > key[best] THEN i ELSE best)

\* Iterator::max_by_key over 0..n: a later element replaces the running maximum
\* unless the running maximum is strictly greater.
RECURSIVE max_by_key(_, _, _, _)
max_by_key(key, i, n, best) ==
    IF i >= n THEN best
    ELSE max_by_key(key, i + 1, n, IF key[best] > key[i] THEN best ELSE i)

\* GameResult::from_state
from_state(ps, turn) ==
    LET scores == [p \in DOMAIN ps |-> score(ps[p])]
    IN [turns  |-> turn,
        winner |-> max_by_key(scores, 1, Cardinality(DOMAIN ps), 0),
        scores |-> scores]

-----------------------------------------------------------------------------
(* What the strategies may return.  play() and end_round() validate        *)
(* nothing a strategy returns, so the trades range over both conforming    *)
(* and misaddressed ones, with positive, negative and zero quantities.     *)

Entry(c, a) == [x \in {c} |-> a]

\* The <<from_proposor, from_acceptor>> pairs the strategies put in a trade: a gift,
\* a negative and a zero quantity, two categories in opposite directions, and a
\* request for the accepter's money.
GoodsInputs ==
    { <<Entry("money", 1), EmptyMap>>,
      <<Entry("money", -1), EmptyMap>>,
      <<Entry("cars", 0), EmptyMap>>,
      <<[c \in CATEGORIES |-> IF c = "money" THEN 1 ELSE -1], EmptyMap>>,
      <<EmptyMap, Entry("money", 1)>> }

Trade(pr, ac, g, h) == [proposer |-> pr, accepter |-> ac, from_proposor |-> g, from_acceptor |-> h]

Trades(pr, ac) == {Trade(pr, ac, gh[1], gh[2]) : gh \in GoodsInputs}

\* A trade filed under key k that names another player as its accepter.
Misaddressed(pr, k) ==
    {Trade(pr, (k + 1) % NumPlayers, Entry("money", 1), EmptyMap)}

\* PlayerStrategy::propose_trades_as_lead: a HashMap<PlayerId, Trade>.
propose_trades_as_lead ==
    UNION {{f \in [K -> UNION {Trades(lead, k) \cup Misaddressed(lead, k) : k \in K}] :
                \A k \in K : f[k] \in Trades(lead, k) \cup Misaddressed(lead, k)}
           : K \in {S \in SUBSET DOMAIN players : Cardinality(S) <= MaxProposed - n_proposed}}

\* PlayerStrategy::propose_trade_as_non_lead, gathered by play() under the proposer's id.
propose_trade_as_non_lead ==
    UNION {{f \in [K -> UNION {Trades(p, lead) \cup Misaddressed(p, lead) : p \in K}] :
                \A p \in K : f[p] \in Trades(p, lead) \cup Misaddressed(p, lead)}
           : K \in {S \in SUBSET (DOMAIN players \ {lead}) :
                        Cardinality(S) <= MaxProposed - n_proposed}}

\* PlayerStrategy::accept_trades_as_lead: a Vec<bool> of any length (up to one more
\* than the number of proposals).
accept_trades_as_lead ==
    UNION {[1..len -> BOOLEAN] : len \in 0..(Cardinality(DOMAIN current_trade_proposals) + 1)}

-----------------------------------------------------------------------------
(* GameState methods.                                                      *)

\* GameState::lead_player_state
lead_player_state == players[lead]

\* A victory test that requires the lead to exceed the threshold.
VictoryStrictlyAbove == score(players[lead]) > victory_threshold

\* A victory test that looks at every player's score.
VictoryOfAnyPlayer == \E p \in DOMAIN players : score(players[p]) >= victory_threshold

\* The victory test at the start of a round.
VictoryReached == score(lead_player_state) >= victory_threshold

\* GameState::start_lead_turn: pop the deck's last good, credit it to the lead;
\* the unwrap of a pop from an empty deck panics.
start_lead_turn ==
    IF Len(deck) = 0
    THEN /\ pc' = "failed"
         /\ UNCHANGED <<deck, players>>
    ELSE /\ deck' = SubSeq(deck, 1, Len(deck) - 1)
         /\ players' = [players EXCEPT ![lead].num_goods[deck[Len(deck)]] = @ + 1]
         /\ pc' = "rounds"

\* An assert! that checks the proposer's holding whatever the amount's sign.
HoldingAssertProposerOnly(ps, t, c) ==
    ps[t.proposer].num_goods[c] > t.from_proposor[c]

\* An assert! that lets a holding be traded down to exactly zero.
HoldingAssertNonStrict(ps, t, c) ==
    LET amount == t.from_proposor[c]
    IN IF amount > 0
       THEN ps[t.proposer].num_goods[c] >= amount
       ELSE ps[t.accepter].num_goods[c] >= -amount

\* The assert! guarding one (category, amount) entry of an accepted trade.
HoldingAssert(ps, t, c) ==
    LET amount == t.from_proposor[c]
    IN IF amount > 0
       THEN ps[t.proposer].num_goods[c] > amount
       ELSE ps[t.accepter].num_goods[c] > -amount

\* A transfer that credits the accepter without debiting the proposer.
TransferCreditOnly(ps, t) ==
    [p \in DOMAIN ps |->
        [ps[p] EXCEPT !.num_goods =
            [c \in DOMAIN @ |->
                IF c \in DOMAIN t.from_proposor /\ p = t.accepter
                THEN @[c] + t.from_proposor[c]
                ELSE @[c]]]]

\* The transfer of one accepted trade: every entry of from_proposor is subtracted
\* from the proposer's holding and added to the accepter's.
Transfer(ps, t) ==
    [p \in DOMAIN ps |->
        [ps[p] EXCEPT !.num_goods =
            [c \in DOMAIN @ |->
                IF c \in DOMAIN t.from_proposor
                THEN @[c] - (IF p = t.proposer THEN t.from_proposor[c] ELSE 0)
                          + (IF p = t.accepter THEN t.from_proposor[c] ELSE 0)
                ELSE @[c]]]]

\* The accepted trades are settled one after the other; a failed assert! aborts.
RECURSIVE settle_all(_, _, _)
settle_all(ps, ts, i) ==
    IF i > Len(ts) THEN [ok |-> TRUE, players |-> ps]
    ELSE IF \A c \in DOMAIN ts[i].from_proposor : HoldingAssert(ps, ts[i], c)
         THEN settle_all(Transfer(ps, ts[i]), ts, i + 1)
         ELSE [ok |-> FALSE, players |-> ps]

Min(a, b) == IF a < b THEN a ELSE b

\* A pairing that takes a proposal without a boolean as accepted.
accepted_keys_padded(acceptances, order) ==
    SelectSeq([i \in 1..Len(order) |->
                  IF i > Len(acceptances) \/ acceptances[i] THEN order[i] ELSE -1],
              LAMBDA k : k >= 0)

\* trade_acceptances.zip(current_trade_proposals).filter(accepted): the keys of the
\* proposals that end_round settles, when the map iterates in the given order.
accepted_keys(acceptances, order) ==
    LET n == Min(Len(acceptances), Len(order))
    IN SelectSeq([i \in 1..n |-> IF acceptances[i] THEN order[i] ELSE -1],
                 LAMBDA k : k >= 0)

accepted_trades(acceptances, order) ==
    LET keys == accepted_keys(acceptances, order)
    IN [i \in 1..Len(keys) |-> current_trade_proposals[keys[i]]]

\* An end_round that reads the proposals without taking them out of the map.
end_round_keeps_proposals ==
    LET ts  == accepted_trades(trade_acceptances, iter_order)
        out == settle_all(players, ts, 1)
    IN IF out.ok
       THEN /\ players' = out.players
            /\ current_trades' = current_trades \o ts
            /\ current_round' = current_round + 1
            /\ settled' = accepted_keys(trade_acceptances, iter_order)
            /\ pc' = "rounds"
            /\ UNCHANGED current_trade_proposals
       ELSE /\ pc' = "failed"
            /\ UNCHANGED <<players, current_trades, current_trade_proposals,
                           current_round, settled>>

\* GameState::end_round
end_round ==
    LET ts  == accepted_trades(trade_acceptances, iter_order)
        out == settle_all(players, ts, 1)
    IN IF out.ok
       THEN /\ players' = out.players
            /\ current_trades' = current_trades \o ts
            /\ current_trade_proposals' = EmptyMap
            /\ current_round' = current_round + 1
            /\ settled' = accepted_keys(trade_acceptances, iter_order)
            /\ pc' = "rounds"
       ELSE /\ pc' = "failed"
            /\ UNCHANGED <<players, current_trades, current_trade_proposals,
                           current_round, settled>>

\* An end_lead_turn that forgets to reset the round counter.
end_lead_turn_keeps_round ==
    /\ lead' = (lead + 1) % NumPlayers
    /\ UNCHANGED <<past_trades, current_trades, current_round>>
    /\ current_turn' = current_turn + 1
    /\ pc' = "turns"

\* An end_lead_turn that clears the turn's trades without archiving them.
end_lead_turn_drops_trades ==
    IF Cardinality(DOMAIN current_trade_proposals) # 0
    THEN /\ pc' = "failed"
         /\ UNCHANGED <<lead, past_trades, current_trades, current_turn, current_round>>
    ELSE /\ lead' = (lead + 1) % NumPlayers
         /\ current_trades' = <<>>
         /\ UNCHANGED past_trades
         /\ current_turn' = current_turn + 1
         /\ current_round' = 0
         /\ pc' = "turns"

\* An end_lead_turn that advances the lead without wrapping around the table.
end_lead_turn_without_wrap ==
    IF Cardinality(DOMAIN current_trade_proposals) # 0
    THEN /\ pc' = "failed"
         /\ UNCHANGED <<lead, past_trades, current_trades, current_turn, current_round>>
    ELSE /\ lead' = lead + 1
         /\ IF Len(current_trades) > 0
            THEN /\ past_trades' = [t \in DOMAIN past_trades \cup {current_turn} |->
                                       IF t = current_turn THEN current_trades
                                       ELSE past_trades[t]]
                 /\ current_trades' = <<>>
            ELSE UNCHANGED <<past_trades, current_trades>>
         /\ current_turn' = current_turn + 1
         /\ current_round' = 0
         /\ pc' = "turns"

\* GameState::end_lead_turn
end_lead_turn ==
    IF Cardinality(DOMAIN current_trade_proposals) # 0
    THEN /\ pc' = "failed"
         /\ UNCHANGED <<lead, past_trades, current_trades, current_turn, current_round>>
    ELSE /\ lead' = (lead + 1) % NumPlayers
         /\ IF Len(current_trades) > 0
            THEN /\ past_trades' = [t \in DOMAIN past_trades \cup {current_turn} |->
                                       IF t = current_turn THEN current_trades
                                       ELSE past_trades[t]]
                 /\ current_trades' = <<>>
            ELSE UNCHANGED <<past_trades, current_trades>>
         /\ current_turn' = current_turn + 1
         /\ current_round' = 0
         /\ pc' = "turns"

-----------------------------------------------------------------------------
(* game::play, one action per position of its loops.                       *)

\* A loop condition that only counts turns.
TurnsConditionWithoutDeck == current_turn < rules.max_turns

\* A loop condition that lets one turn too many start.
TurnsConditionInclusive == current_turn <= rules.max_turns /\ Len(deck) > 0

\* The condition of the 'turns loop.
TurnsCondition == current_turn < rules.max_turns /\ Len(deck) > 0

\* 'turns: the loop condition holds; the lead draws.
StartLeadTurn ==
    /\ pc = "turns"
    /\ TurnsCondition
    /\ start_lead_turn
    /\ UNCHANGED <<lead, current_turn, current_round, current_trade_proposals,
                   current_trades, past_trades, trade_acceptances, iter_order,
                   decisions, settled, n_proposed, result, rules, roster_vars, stats_vars>>

\* 'turns: the loop condition fails; play() returns the snapshot.
GameOver ==
    /\ pc = "turns"
    /\ ~TurnsCondition
    /\ result' = from_state(players, current_turn)
    /\ pc' = "done"
    /\ UNCHANGED <<game, trade_acceptances, iter_order, decisions, settled, n_proposed,
                   rules, roster_vars, stats_vars>>

\* 'rounds: the lead has reached the threshold; break 'turns and return the snapshot.
Victory ==
    /\ pc = "rounds"
    /\ VictoryReached
    /\ result' = from_state(players, current_turn)
    /\ pc' = "done"
    /\ UNCHANGED <<game, trade_acceptances, iter_order, decisions, settled, n_proposed,
                   rules, roster_vars, stats_vars>>

\* An exit test that forgets that round 0 never ends the turn.
LeavesRoundsOnAnyEvenRound(proposals) ==
    current_round % 2 = 0 /\ Cardinality(DOMAIN proposals) = 0

\* A test that lets round 2 pass and breaks out on the even round after it.
LeavesRoundsAfterSecondEvenRound(proposals) ==
    /\ current_round > 2
    /\ current_round % 2 = 0
    /\ Cardinality(DOMAIN proposals) = 0

\* The test that breaks out of 'rounds: a later even round without proposals.
LeavesRounds(proposals) ==
    /\ current_round > 0
    /\ current_round % 2 = 0
    /\ Cardinality(DOMAIN proposals) = 0

\* The proposals are stored, in some iteration order of the HashMap; a later even
\* round without proposals leaves 'rounds.
StoreProposals(proposals) ==
    /\ current_trade_proposals' = proposals
    /\ iter_order' \in Orders(DOMAIN proposals)
    /\ n_proposed' = n_proposed + Cardinality(DOMAIN proposals)
    /\ pc' = IF LeavesRounds(proposals) THEN "end_turn" ELSE "accept"
    /\ decisions' = EmptyMap
    /\ settled' = <<>>
    /\ trade_acceptances' = <<>>
    /\ UNCHANGED <<deck, players, lead, current_turn, current_round, current_trades,
                   past_trades, result, rules, roster_vars, stats_vars>>

\* Even round: the lead proposes.
ProposeAsLead ==
    /\ pc = "rounds"
    /\ ~VictoryReached
    /\ current_round % 2 = 0
    /\ \E proposals \in propose_trades_as_lead : StoreProposals(proposals)

\* Odd round: every non-lead player may propose one trade.
ProposeAsNonLead ==
    /\ pc = "rounds"
    /\ ~VictoryReached
    /\ current_round % 2 # 0
    /\ \E proposals \in propose_trade_as_non_lead : StoreProposals(proposals)

\* An even round in which every non-lead player is asked, addressed or not.
AcceptAsNonLeadAskingAll ==
    /\ pc = "accept"
    /\ current_round % 2 = 0
    /\ \E answers \in [DOMAIN current_trade_proposals \cup (DOMAIN players \ {lead})
                            -> BOOLEAN] :
          /\ decisions' = answers
          /\ trade_acceptances' =
                SelectSeq([i \in 1..Len(iter_order) |-> answers[iter_order[i]]],
                          LAMBDA do_trade : do_trade)
    /\ pc' = "settle"
    /\ UNCHANGED <<game, iter_order, settled, n_proposed, result, rules, roster_vars,
                   stats_vars>>

\* Even round: each addressee is asked about its trade; only the true answers are kept.
AcceptAsNonLead ==
    /\ pc = "accept"
    /\ current_round % 2 = 0
    /\ \E answers \in [DOMAIN current_trade_proposals -> BOOLEAN] :
          /\ decisions' = answers
          /\ trade_acceptances' =
                SelectSeq([i \in 1..Len(iter_order) |-> answers[iter_order[i]]],
                          LAMBDA do_trade : do_trade)
    /\ pc' = "settle"
    /\ UNCHANGED <<game, iter_order, settled, n_proposed, result, rules, roster_vars,
                   stats_vars>>

\* Odd round: the lead answers with one list of booleans.
AcceptAsLead ==
    /\ pc = "accept"
    /\ current_round % 2 # 0
    /\ trade_acceptances' \in accept_trades_as_lead
    /\ pc' = "settle"
    /\ UNCHANGED <<game, iter_order, decisions, settled, n_proposed, result, rules,
                   roster_vars, stats_vars>>

\* The answers and the drained map are consumed by end_round.
EndRound ==
    /\ pc = "settle"
    /\ end_round
    /\ trade_acceptances' = <<>>
    /\ iter_order' = <<>>
    /\ decisions' = EmptyMap
    /\ UNCHANGED <<deck, lead, current_turn, past_trades, n_proposed, result, rules,
                   roster_vars, stats_vars>>

EndLeadTurn ==
    /\ pc = "end_turn"
    /\ end_lead_turn
    /\ UNCHANGED <<deck, players, current_trade_proposals, trade_acceptances, iter_order,
                   decisions, settled, n_proposed, result, rules, roster_vars, stats_vars>>

Next ==
    \/ StartLeadTurn
    \/ GameOver
    \/ Victory
    \/ ProposeAsLead
    \/ ProposeAsNonLead
    \/ AcceptAsNonLead
    \/ AcceptAsLead
    \/ EndRound
    \/ EndLeadTurn

Spec == Init /\ [][Next]_vars

-----------------------------------------------------------------------------
(* game::play with a roster of PlayerNoTrades (player/rand_no_trades.rs).  *)

None == "None"

\* A PlayerNoTrades that offers one unit of money to player 0.
PlayerNoTrades_offers_money ==
    [k \in {0} |-> Trade(lead, 0, Entry("money", 1), EmptyMap)]

\* PlayerNoTrades::propose_trades_as_lead
PlayerNoTrades_propose_trades_as_lead == EmptyMap

\* PlayerNoTrades::propose_trade_as_non_lead
PlayerNoTrades_propose_trade_as_non_lead == None

\* PlayerNoTrades::accept_trades_as_lead
PlayerNoTrades_accept_trades_as_lead ==
    [i \in 1..Cardinality(DOMAIN current_trade_proposals) |-> FALSE]

\* PlayerNoTrades::accept_trades_as_non_lead
PlayerNoTrades_accept_trades_as_non_lead == FALSE

NoTradesProposeAsLead ==
    /\ pc = "rounds"
    /\ ~VictoryReached
    /\ current_round % 2 = 0
    /\ StoreProposals(PlayerNoTrades_propose_trades_as_lead)

\* The proposals of the players that returned Some(trade).
NoTradesProposeAsNonLead ==
    /\ pc = "rounds"
    /\ ~VictoryReached
    /\ current_round % 2 # 0
    /\ StoreProposals([p \in {q \in DOMAIN players \ {lead} :
                                 PlayerNoTrades_propose_trade_as_non_lead # None}
                           |-> PlayerNoTrades_propose_trade_as_non_lead])

NoTradesAcceptAsNonLead ==
    /\ pc = "accept"
    /\ current_round % 2 = 0
    /\ decisions' = [k \in DOMAIN current_trade_proposals |->
                        PlayerNoTrades_accept_trades_as_non_lead]
    /\ trade_acceptances' =
          SelectSeq([i \in 1..Len(iter_order) |-> PlayerNoTrades_accept_trades_as_non_lead],
                    LAMBDA do_trade : do_trade)
    /\ pc' = "settle"
    /\ UNCHANGED <<game, iter_order, settled, n_proposed, result, rules, roster_vars,
                   stats_vars>>

NoTradesAcceptAsLead ==
    /\ pc = "accept"
    /\ current_round % 2 # 0
    /\ trade_acceptances' = PlayerNoTrades_accept_trades_as_lead
    /\ pc' = "settle"
    /\ UNCHANGED <<game, iter_order, decisions, settled, n_proposed, result, rules,
                   roster_vars, stats_vars>>

\* Any GameState and GameRules handed to play(): decks of every length, every
\* max_turns up to the largest.
InitNoTrades ==
    /\ StartState(Decks(0..DeckLen), -1..max_turns)
    /\ RosterOff
    /\ StatsOff

NextNoTrades ==
    \/ StartLeadTurn
    \/ GameOver
    \/ Victory
    \/ NoTradesProposeAsLead
    \/ NoTradesProposeAsNonLead
    \/ NoTradesAcceptAsNonLead
    \/ NoTradesAcceptAsLead
    \/ EndRound
    \/ EndLeadTurn

SpecNoTrades == InitNoTrades /\ [][NextNoTrades]_vars

\* play() runs to its return without waiting on anything: PlayerNoTrades answers every
\* call at once, so a step that can be taken is taken.
SpecNoTradesFair == SpecNoTrades /\ WF_vars(NextNoTrades)

-----------------------------------------------------------------------------
(* game::play with strategies that propose at will and answer every        *)
(* proposal with a refusal, followed through rounds without end.  The      *)
(* program reads current_round only for its parity and for being above 0,  *)
(* so the rounds above RoundCap are represented by the two highest ones.   *)

\* GameState::end_round when no proposal was accepted: the map is drained and the
\* round counted.  The proposals of the round are forgotten by the budget.
EndRoundRefused ==
    /\ pc = "settle"
    /\ Len(accepted_trades(trade_acceptances, iter_order)) = 0
    /\ current_trade_proposals' = EmptyMap
    /\ current_round' = IF current_round + 1 > RoundCap
                        THEN current_round - 1
                        ELSE current_round + 1
    /\ n_proposed' = 0
    /\ settled' = <<>>
    /\ trade_acceptances' = <<>>
    /\ iter_order' = <<>>
    /\ decisions' = EmptyMap
    /\ pc' = "rounds"
    /\ UNCHANGED <<deck, players, lead, current_turn, current_trades, past_trades, result,
                   rules, roster_vars, stats_vars>>

NextRounds ==
    \/ StartLeadTurn
    \/ GameOver
    \/ Victory
    \/ ProposeAsLead
    \/ ProposeAsNonLead
    \/ NoTradesAcceptAsNonLead
    \/ NoTradesAcceptAsLead
    \/ EndRoundRefused
    \/ EndLeadTurn

\* play() runs on one thread and every strategy call returns: a step that can be
\* taken is taken.
SpecRounds == Init /\ [][NextRounds]_vars /\ WF_vars(NextRounds)

-----------------------------------------------------------------------------
(* The strategy registry and the roster (player/mod.rs), with the state    *)
(* of the two strategies of the repository.                                *)

\* The strategy modules; the #[ctor] of each registers it before main() runs.
StrategyModules == {"PlayerNoTrades", "RealPlayerCLI"}

\* The player_type names a configuration may carry.
PlayerTypeInputs == StrategyModules \cup {"PlayerUnknown"}

_DEFAULT_PLAYER_TYPE == "PlayerNoTrades"

NotInited == [player_type |-> "NotInited"]

\* The constructors the strategy modules register: PlayerNoTrades {} has no field,
\* RealPlayerCLI { my_id: 0 }.
create(player_type) ==
    IF player_type = "RealPlayerCLI"
    THEN [player_type |-> "RealPlayerCLI", my_id |-> 0]
    ELSE [player_type |-> player_type]

\* PlayerStrategy::init: RealPlayerCLI stores the id, PlayerNoTrades does nothing.
PlayerStrategy_init(strategy, player_id) ==
    IF strategy.player_type = "RealPlayerCLI"
    THEN [strategy EXCEPT !.my_id = player_id]
    ELSE strategy

\* PlayerStrategy::reset: RealPlayerCLI sets my_id to 0, PlayerNoTrades does nothing.
PlayerStrategy_reset(strategy) ==
    IF strategy.player_type = "RealPlayerCLI"
    THEN [strategy EXCEPT !.my_id = 0]
    ELSE strategy

\* A load_strategies that gives the default strategy to a seat of unknown type.
load_strategies_defaulting_unknown(cfgs, n) ==
    IF Len(cfgs) > n \/ (Len(cfgs) < n /\ _DEFAULT_PLAYER_TYPE \notin REGISTRY)
    THEN [ok |-> FALSE, strategies |-> <<>>]
    ELSE [ok |-> TRUE,
          strategies |-> [i \in 0..(n - 1) |->
                             IF i < Len(cfgs) /\ cfgs[i + 1] \in REGISTRY
                             THEN PlayerStrategy_init(create(cfgs[i + 1]), i)
                             ELSE create(_DEFAULT_PLAYER_TYPE)]]

\* load_strategies: the assert!, then one strategy per seat; a lookup of a name that is
\* not registered panics (expect for a configured seat, the index for the default).
load_strategies(cfgs, n) ==
    IF \/ Len(cfgs) > n
       \/ \E i \in 1..Len(cfgs) : cfgs[i] \notin REGISTRY
       \/ Len(cfgs) < n /\ _DEFAULT_PLAYER_TYPE \notin REGISTRY
    THEN [ok |-> FALSE, strategies |-> <<>>]
    ELSE [ok |-> TRUE,
          strategies |-> [i \in 0..(n - 1) |->
                             IF i < Len(cfgs)
                             THEN PlayerStrategy_init(create(cfgs[i + 1]), i)
                             ELSE create(_DEFAULT_PLAYER_TYPE)]]

\* No game is being played.
GameOff ==
    /\ deck = <<>>
    /\ players = EmptyMap
    /\ lead = 0
    /\ current_turn = 0
    /\ current_round = 0
    /\ current_trade_proposals = EmptyMap
    /\ current_trades = <<>>
    /\ past_trades = EmptyMap
    /\ pc = "off"
    /\ trade_acceptances = <<>>
    /\ iter_order = <<>>
    /\ decisions = EmptyMap
    /\ settled = <<>>
    /\ n_proposed = 0
    /\ result = NoResult
    /\ rules = [max_turns |-> 0]

\* The process starts with an empty registry and some configuration.
InitRoster ==
    /\ GameOff
    /\ StatsOff
    /\ REGISTRY = {}
    /\ configs \in UNION {[1..len -> PlayerTypeInputs] : len \in 0..MaxConfigs}
    /\ num_players \in NumPlayersInputs
    /\ strategies = <<>>
    /\ at_init = <<>>
    /\ roster_pc = "ctor"

\* register_strategy, called by the #[ctor] of a strategy module.
RegisterStrategy ==
    /\ roster_pc = "ctor"
    /\ \E player_type \in StrategyModules \ REGISTRY :
          REGISTRY' = REGISTRY \cup {player_type}
    /\ UNCHANGED <<configs, num_players, strategies, at_init, roster_pc, play_vars,
                   stats_vars>>

\* main() runs after every #[ctor] and builds the roster.
LoadStrategies ==
    /\ roster_pc = "ctor"
    /\ REGISTRY = StrategyModules
    /\ LET out == load_strategies(configs, num_players)
       IN /\ strategies' = out.strategies
          /\ at_init' = [i \in DOMAIN out.strategies |->
                            IF i < Len(configs) THEN out.strategies[i] ELSE NotInited]
          /\ roster_pc' = IF out.ok THEN "ready" ELSE "failed"
    /\ UNCHANGED <<REGISTRY, configs, num_players, play_vars, stats_vars>>

\* reset() of one strategy of the roster.
Reset ==
    /\ roster_pc = "ready"
    /\ \E i \in DOMAIN strategies :
          strategies' = [strategies EXCEPT ![i] = PlayerStrategy_reset(@)]
    /\ UNCHANGED <<REGISTRY, configs, num_players, at_init, roster_pc, play_vars,
                   stats_vars>>

NextRoster ==
    \/ RegisterStrategy
    \/ LoadStrategies
    \/ Reset

SpecRoster == InitRoster /\ [][NextRoster]_vars

-----------------------------------------------------------------------------
(* The statistics accumulator (stats.rs) over the accumulators Min, Max    *)
(* and Variance of the average crate.  The f64 values are modelled by      *)
(* exact fractions <<numerator, denominator>> in lowest terms.             *)

\* The values the model adds.
StatsInputs == {-2, 1, 2, 3, 4}

Abs(a) == IF a < 0 THEN -a ELSE a

RECURSIVE GCD(_, _)
GCD(a, b) == IF b = 0 THEN a ELSE GCD(b, a % b)

\* The fraction num/den (den # 0) in lowest terms with a positive denominator.
Frac(num, den) ==
    LET g == GCD(Abs(num), Abs(den))
        sgn == IF den < 0 THEN -1 ELSE 1
    IN <<sgn * (num \div g), sgn * (den \div g)>>

FracAdd(a, b) == Frac(a[1] * b[2] + b[1] * a[2], a[2] * b[2])

FracMul(a, b) == Frac(a[1] * b[1], a[2] * b[2])

\* Variance::sample_variance: the sum of squares over n - 1.
Variance_sample_variance(st) ==
    IF st.n < 2 THEN Frac(0, 1) ELSE FracMul(st.sum_2, Frac(1, st.n - 1))

\* Variance::population_variance: the sum of squares over n.
Variance_population_variance(st) ==
    IF st.n < 2 THEN Frac(0, 1) ELSE FracMul(st.sum_2, Frac(1, st.n))

\* Variance::add, the incremental update: the running mean moves by
\* delta_n = (x - avg) / n and the sum of squares grows by delta_n^2 * n * (n - 1).
Variance_add(st, x) ==
    LET n == st.n + 1
        delta_n == FracMul(FracAdd(Frac(x, 1), FracMul(Frac(-1, 1), st.avg)), Frac(1, n))
    IN [n     |-> n,
        avg   |-> FracAdd(st.avg, delta_n),
        sum_2 |-> FracAdd(st.sum_2, FracMul(FracMul(delta_n, delta_n), Frac(n * (n - 1), 1)))]

\* Stats::add: Min, Max and Variance each take the value.
Stats_add(st, x) ==
    LET var == Variance_add(st, x)
    IN [n     |-> var.n,
        min   |-> IF st.n = 0 \/ x < st.min THEN x ELSE st.min,
        max   |-> IF st.n = 0 \/ x > st.max THEN x ELSE st.max,
        avg   |-> var.avg,
        sum_2 |-> var.sum_2]

\* Stats::min
Stats_min(st) == st.min

\* Stats::max
Stats_max(st) == st.max

\* Stats::mean
Stats_mean(st) == st.avg

\* A Stats::var that reports the sample variance.
Stats_var_of_sample(st) == Variance_sample_variance(st)

\* Stats::var
Stats_var(st) == Variance_population_variance(st)

InitStats ==
    /\ GameOff
    /\ RosterOff
    /\ stats = Stats_new
    /\ inserted = <<>>

\* One more value is added.
StatsAdd ==
    /\ Len(inserted) < MaxInserted
    /\ \E x \in StatsInputs :
          /\ stats' = Stats_add(stats, x)
          /\ inserted' = Append(inserted, x)
    /\ UNCHANGED <<play_vars, roster_vars>>

NextStats == StatsAdd

SpecStats == InitStats /\ [][NextStats]_vars

-----------------------------------------------------------------------------
(* Properties.                                                             *)

Seats == DOMAIN players

InSeq(x, s) == \E i \in 1..Len(s) : s[i] = x

StartMoney(p) == start_money + OFFSET[p + 1] * p

CountInDeck(d, c) == Cardinality({i \in 1..Len(d) : d[i] = c})

Holding(ps, c) == SumOver([p \in DOMAIN ps |-> ps[p].num_goods[c]], DOMAIN ps)

Total(ps, d, c) == Holding(ps, c) + CountInDeck(d, c)

Amount(m, c) == IF c \in DOMAIN m THEN m[c] ELSE 0

\* C1 (conservation): for every category the goods held by all players plus the
\* goods of that category left in the deck is the same before and after every
\* step of a game; a lead draw and a settlement leave it unchanged.
C1_Conservation ==
    [][\A c \in CATEGORIES : Total(players', deck', c) = Total(players, deck, c)]_vars

\* A lead has drawn and a settled trade has moved money between players.
C1_Witness ==
    /\ pc = "rounds"
    /\ Len(settled) > 0
    /\ Len(deck) < DeckLen
    /\ \E p \in Seats : players[p].num_goods["money"] # StartMoney(p)

\* C2 (stated as claimed): on an even round a proposal is settled if and only if the
\* player it is addressed to returned true for it.
C2_SettledIffAddresseeAccepted ==
    [][(pc = "settle" /\ current_round % 2 = 0 /\ pc' = "rounds")
          => \A k \in DOMAIN current_trade_proposals : InSeq(k, settled') <=> decisions[k]]_vars

\* The i-th smallest key of a proposal collection.
NthKey(S, i) == CHOOSE k \in S : Cardinality({j \in S : j < k}) = i - 1

\* C3 (stated as claimed): on an odd round the i-th boolean of the lead's answer
\* decides the proposal of the non-lead with the i-th smallest id, whatever the
\* iteration order of the proposal collection.
C3_AlignedByAscendingId ==
    [][(pc = "settle" /\ current_round % 2 # 0 /\ pc' = "rounds")
          => \A i \in 1..Cardinality(DOMAIN current_trade_proposals) :
                InSeq(NthKey(DOMAIN current_trade_proposals, i), settled')
                    <=> (i <= Len(trade_acceptances) /\ trade_acceptances[i])]_vars

\* The holdings after settling the trades ts with both signed-quantity maps applied.
RECURSIVE BothMapsApplied(_, _, _)
BothMapsApplied(ps, ts, i) ==
    IF i > Len(ts) THEN ps
    ELSE BothMapsApplied(
            [p \in DOMAIN ps |->
                [ps[p] EXCEPT !.num_goods =
                    [c \in DOMAIN @ |->
                        @[c] - (IF p = ts[i].proposer THEN Amount(ts[i].from_proposor, c) ELSE 0)
                             + (IF p = ts[i].accepter THEN Amount(ts[i].from_proposor, c) ELSE 0)
                             - (IF p = ts[i].accepter THEN Amount(ts[i].from_acceptor, c) ELSE 0)
                             + (IF p = ts[i].proposer THEN Amount(ts[i].from_acceptor, c) ELSE 0)]]],
            ts, i + 1)

\* C4 (stated as claimed): a settlement applies both maps of every accepted trade:
\* from_proposor moves goods from the proposer to the accepter and from_acceptor
\* moves goods from the accepter to the proposer.
C4_BothMapsSettled ==
    [][(pc = "settle" /\ pc' = "rounds")
          => players' = BothMapsApplied(players,
                            [i \in 1..Len(settled') |-> current_trade_proposals[settled'[i]]], 1)]_vars

MaxScore(r) == \A p \in DOMAIN r.scores : r.scores[p] <= r.scores[r.winner]

TiedWithWinner(r) == {p \in DOMAIN r.scores : r.scores[p] = r.scores[r.winner]}

C6_NonNegative ==
    pc # "failed" => \A p \in Seats : \A c \in CATEGORIES : players[p].num_goods[c] >= 0

\* A settlement with a negative quantity has gone through: the accepter paid.
C6_Witness ==
    /\ pc = "rounds"
    /\ Len(settled) > 0
    /\ LET t == current_trades[Len(current_trades)]
       IN \E c \in DOMAIN t.from_proposor :
              t.from_proposor[c] < 0 /\ players[t.accepter].num_goods[c] = 1

\* C7 (victory check first): when the lead's score is at least the threshold at the
\* start of a round, the next step ends the game with the snapshot of the unchanged
\* state, no strategy is asked anything and nothing is settled; and a finished game
\* takes no further step.
C7_VictoryEndsGameAtOnce ==
    [][/\ (pc = "rounds" /\ score(players[lead]) >= victory_threshold)
            => /\ pc' = "done"
               /\ result' = from_state(players, current_turn)
               /\ UNCHANGED <<game, trade_acceptances, decisions, settled, n_proposed>>
       /\ pc # "done"]_vars

\* The game ended by victory at the start of a later round, after a trade was settled.
C7_Witness ==
    /\ pc = "done"
    /\ score(players[lead]) >= victory_threshold
    /\ current_round > 0
    /\ Len(current_trades) > 0

AcceptancesUnder(o) ==
    IF current_round % 2 = 0
    THEN SelectSeq([i \in 1..Len(o) |-> decisions[o[i]]], LAMBDA do_trade : do_trade)
    ELSE trade_acceptances

\* What end_round makes of the round when the proposal collection iterates in order o.
EndRoundOutcome(o) ==
    LET ts  == accepted_trades(AcceptancesUnder(o), o)
        out == settle_all(players, ts, 1)
    IN IF out.ok THEN [ok |-> TRUE, players |-> out.players, trades |-> current_trades \o ts]
       ELSE [ok |-> FALSE]

\* C9 (stated as claimed): with the same state, the same proposals and the same
\* answers of the strategies, a round's outcome (holdings and trade history) is the
\* same for every iteration order of the proposal collection.
C9_OutcomeIndependentOfIterationOrder ==
    pc = "settle" =>
        \A o1, o2 \in Orders(DOMAIN current_trade_proposals) :
            EndRoundOutcome(o1) = EndRoundOutcome(o2)

C11_ProposalsDrained ==
    /\ DOMAIN current_trade_proposals \subseteq Seats
    /\ pc \in {"turns", "rounds", "end_turn"} => Cardinality(DOMAIN current_trade_proposals) = 0
    /\ pc = "end_turn" => ~ENABLED (EndLeadTurn /\ pc' = "failed")

\* A round with two proposals has been settled and the map is empty again.
C11_Witness ==
    /\ pc = "rounds"
    /\ current_round > 0
    /\ n_proposed = 2
    /\ Len(settled) > 0
    /\ Cardinality(DOMAIN current_trade_proposals) = 0

\* The first trade end_round settles from the round's proposals and answers.
FirstAccepted == current_trade_proposals[accepted_keys(trade_acceptances, iter_order)[1]]

\* An entry of the trade asks for at least as much as the paying side holds.
Unaffordable(ps, t) ==
    \E c \in DOMAIN t.from_proposor :
        \/ t.from_proposor[c] > 0 /\ ps[t.proposer].num_goods[c] <= t.from_proposor[c]
        \/ t.from_proposor[c] < 0 /\ ps[t.accepter].num_goods[c] <= -t.from_proposor[c]

\* C12 (strict holding precondition): when the first accepted trade of a round asks,
\* in some category, for as much as or more than the paying side holds (the proposer
\* for a positive amount, the accepter for a negative one), end_round fails, no
\* holding changes and no GameResult is ever produced; when end_round succeeds with
\* one accepted trade, the full amounts have moved and the trade is recorded.
C12_StrictHoldingOrFailure ==
    [][/\ (pc = "settle" /\ Len(accepted_keys(trade_acceptances, iter_order)) > 0
              /\ Unaffordable(players, FirstAccepted))
            => (pc' = "failed" /\ result' = NoResult /\ players' = players)
       /\ (pc = "settle" /\ pc' = "rounds"
              /\ Len(accepted_keys(trade_acceptances, iter_order)) = 1)
            => /\ ~Unaffordable(players, FirstAccepted)
               /\ current_trades' = Append(current_trades, FirstAccepted)
               /\ \A c \in DOMAIN FirstAccepted.from_proposor :
                     FirstAccepted.proposer # FirstAccepted.accepter =>
                        /\ players'[FirstAccepted.proposer].num_goods[c]
                              = players[FirstAccepted.proposer].num_goods[c]
                                    - FirstAccepted.from_proposor[c]
                        /\ players'[FirstAccepted.accepter].num_goods[c]
                              = players[FirstAccepted.accepter].num_goods[c]
                                    + FirstAccepted.from_proposor[c]
       /\ pc = "failed" => FALSE]_vars

\* A settlement failed on a trade that asks for exactly what its proposer holds.
C12_Witness ==
    /\ pc = "failed"
    /\ Cardinality(DOMAIN current_trade_proposals) = 1
    /\ \E k \in DOMAIN current_trade_proposals :
          LET t == current_trade_proposals[k]
          IN \E c \in DOMAIN t.from_proposor :
                t.from_proposor[c] > 0 /\ players[t.proposer].num_goods[c] = t.from_proposor[c]

\* C20 (leaving the round loop): a step leaves the round loop for the end of the turn
\* exactly when the round is even, not the first, the lead is below the threshold and
\* has proposed no trade; an empty proposal in round 0 goes on to the answers, so a
\* turn only ends after the non-lead players were asked to propose in round 1.
C20_LeavesRoundsOnLaterEmptyEvenRound ==
    [][/\ (pc # "end_turn" /\ pc' = "end_turn")
            <=> /\ pc = "rounds"
                /\ score(players[lead]) < victory_threshold
                /\ current_round % 2 = 0
                /\ current_round > 0
                /\ Cardinality(DOMAIN current_trade_proposals') = 0
       /\ (pc = "rounds" /\ current_round = 0 /\ score(players[lead]) < victory_threshold)
            => pc' = "accept"
       /\ pc' = "end_turn" => current_round' >= 2]_vars

\* A turn ends in round 2 after the lead proposed nothing in round 0.
C20_Witness ==
    /\ pc = "end_turn"
    /\ current_round = 2
    /\ n_proposed = 0

\* C13 (termination): every game is over after finitely many steps: play() returns a
\* GameResult for a victory, an exhausted deck or max_turns turns, whatever the
\* strategies propose, a turn's rounds being cut off by a bound.
C13_PlayTerminates == <>(pc = "done")

\* Goods of non-money categories held by one player, and by all of them.
GoodsOf(p) == SumOver([c \in CATEGORIES \ {"money"} |-> players[p].num_goods[c]],
                      CATEGORIES \ {"money"})

GoodsDrawn == SumOver([p \in Seats |-> GoodsOf(p)], Seats)

\* C14 (PlayerNoTrades): with every seat a PlayerNoTrades nothing is proposed and no
\* trade is settled: current_trades and past_trades stay empty, every player keeps its
\* start money, and the goods a player holds are the goods of the turns it led.
C14_NoTradesNothingSettled ==
    /\ current_trades = <<>>
    /\ past_trades = EmptyMap
    /\ n_proposed = 0
    /\ Cardinality(DOMAIN current_trade_proposals) = 0
    /\ \A p \in Seats :
          /\ players[p].num_goods["money"] = StartMoney(p)
          /\ GoodsOf(p) = Cardinality({t \in 0..(GoodsDrawn - 1) : t % NumPlayers = p})

\* A finished game of three PlayerNoTrades in which two seats have led and drawn.
C14_Witness ==
    /\ NumPlayers = 3
    /\ pc = "done"
    /\ GoodsOf(0) = 1
    /\ GoodsOf(1) = 1
    /\ GoodsOf(2) = 0

\* The goods of the deck play() was handed: those still in it and those drawn.
InitialDeckLen == Len(deck) + GoodsDrawn

\* C15 (result bounds, as claimed): every GameResult has 0 <= turns <= max_turns,
\* turns at most the number of goods of the initial deck, a winner below the number of
\* players and one score per player.
C15_ResultWithinRules ==
    result # NoResult =>
        /\ 0 <= result.turns
        /\ result.turns <= rules.max_turns
        /\ result.turns <= InitialDeckLen
        /\ result.winner \in 0..(NumPlayers - 1)
        /\ DOMAIN result.scores = 0..(NumPlayers - 1)

\* C15 (result bounds, amended): every GameResult has 0 <= turns, turns <= max_turns
\* when max_turns is not negative and turns = 0 when it is, turns at most the number
\* of goods of the initial deck, a winner below the number of players and one score
\* per player.
C15_ResultWithinBounds ==
    result # NoResult =>
        /\ 0 <= result.turns
        /\ result.turns <= (IF rules.max_turns >= 0 THEN rules.max_turns ELSE 0)
        /\ result.turns <= InitialDeckLen
        /\ result.winner \in 0..(NumPlayers - 1)
        /\ DOMAIN result.scores = 0..(NumPlayers - 1)

\* A game returned its result after as many turns as the deck had goods.
C15_Witness ==
    /\ pc = "done"
    /\ result # NoResult
    /\ result.turns = DeckLen
    /\ InitialDeckLen = DeckLen
    /\ NumPlayers = 3

\* C16 (deck exhaustion): the step between two turns never fails, a lead only draws from
\* a deck that has a good, the draw of the last good opens that turn's rounds, and
\* when the deck is empty between two turns every turn that drew has advanced the lead
\* and the game ends with the GameResult of the state.
C16_DeckExhaustionEndsGame ==
    [][/\ pc = "turns" => pc' # "failed"
       /\ deck' # deck => (Len(deck) > 0 /\ pc' = "rounds")
       /\ (pc = "turns" /\ Len(deck) = 0)
            => /\ current_turn = GoodsDrawn
               /\ lead = current_turn % NumPlayers
               /\ pc' = "done"
               /\ result' = from_state(players, current_turn)]_vars

\* The deck ran out before max_turns and the game returned a result for all its turns.
C16_Witness ==
    /\ pc = "done"
    /\ Len(deck) = 0
    /\ result # NoResult
    /\ result.turns = DeckLen
    /\ result.turns < rules.max_turns

\* C17 (reset restores init): for both strategies and every seat, a strategy that was
\* initialised with init(id, cfg) is, after any reset(), in the state init left it in;
\* its player id is the one it was given.
C17_ResetRestoresInit ==
    roster_pc = "ready" =>
        \A i \in DOMAIN strategies :
            at_init[i] # NotInited => strategies[i] = at_init[i]

\* Every configured player_type is registered.
AllRegistered == \A i \in 1..Len(configs) : configs[i] \in REGISTRY

\* The roster load_strategies is claimed to return on success.
RosterAsConfigured(roster) ==
    /\ DOMAIN roster = 0..(num_players - 1)
    /\ \A i \in DOMAIN roster :
          IF i < Len(configs)
          THEN /\ roster[i].player_type = configs[i + 1]
               /\ roster[i] = PlayerStrategy_init(create(configs[i + 1]), i)
               /\ roster[i].player_type = "RealPlayerCLI" => roster[i].my_id = i
          ELSE roster[i] = [player_type |-> "PlayerNoTrades"]

\* C18 (roster construction, as claimed): load_strategies fails and returns no roster
\* whenever a configured seat names an unregistered player_type; when all names are
\* registered it returns num_players strategies, the configured seats built by their
\* constructors and initialised with their index, the others the default.
C18_LoadStrategiesAsClaimed ==
    [][(roster_pc = "ctor" /\ roster_pc' # "ctor") =>
          IF AllRegistered
          THEN roster_pc' = "ready" /\ RosterAsConfigured(strategies')
          ELSE roster_pc' = "failed" /\ strategies' = <<>>]_vars

\* C18 (roster construction, amended): load_strategies fails and returns no roster
\* whenever a configured seat names an unregistered player_type or there are more
\* configured seats than players; otherwise it returns num_players strategies, the
\* configured seats built by their constructors and initialised with their index, the
\* others the default PlayerNoTrades.
C18_LoadStrategies ==
    [][(roster_pc = "ctor" /\ roster_pc' # "ctor") =>
          IF AllRegistered /\ Len(configs) <= num_players
          THEN roster_pc' = "ready" /\ RosterAsConfigured(strategies')
          ELSE roster_pc' = "failed" /\ strategies' = <<>>]_vars

\* A roster of three with one configured RealPlayerCLI at seat 1 and a default seat.
C18_Witness ==
    /\ roster_pc = "ready"
    /\ num_players = 3
    /\ Len(configs) = 2
    /\ configs[2] = "RealPlayerCLI"
    /\ strategies[1] = [player_type |-> "RealPlayerCLI", my_id |-> 1]
    /\ strategies[2] = [player_type |-> "PlayerNoTrades"]

\* The sum of a sequence and of its squares.
SeqSum(xs) == SumOver(xs, DOMAIN xs)

SeqSumSq(xs) == SumOver([i \in DOMAIN xs |-> xs[i] * xs[i]], DOMAIN xs)

\* C19 (statistics): after 1, 2, 3, 4 a Stats reports min 1, max 4, mean 5/2 and
\* variance 5/4; after a single value v it reports mean v and variance 0; after any
\* values it reports their minimum, maximum, arithmetic mean and population variance.
C19_StatsOfInserted ==
    LET n == Len(inserted)
    IN /\ inserted = <<1, 2, 3, 4>> =>
             /\ Stats_min(stats) = 1
             /\ Stats_max(stats) = 4
             /\ Stats_mean(stats) = <<5, 2>>
             /\ Stats_var(stats) = <<5, 4>>
       /\ n = 1 => (Stats_mean(stats) = <<inserted[1], 1>> /\ Stats_var(stats) = <<0, 1>>)
       /\ n >= 1 =>
             /\ \E i \in 1..n : inserted[i] = Stats_min(stats)
             /\ \A i \in 1..n : inserted[i] >= Stats_min(stats)
             /\ \E i \in 1..n : inserted[i] = Stats_max(stats)
             /\ \A i \in 1..n : inserted[i] <= Stats_max(stats)
             /\ Stats_mean(stats) = Frac(SeqSum(inserted), n)
             /\ Stats_var(stats) =
                   Frac(n * SeqSumSq(inserted) - SeqSum(inserted) * SeqSum(inserted), n * n)

\* The values 1, 2, 3, 4 have been added.
C19_Witness ==
    /\ inserted = <<1, 2, 3, 4>>
    /\ stats.n = 4

\* Every entry of the trade's from_proposor is 0.
OnlyZeroAmounts(t) ==
    /\ DOMAIN t.from_proposor # {}
    /\ \A c \in DOMAIN t.from_proposor : t.from_proposor[c] = 0

\* C21 (zero amounts): an accepted trade whose from_proposor entries are exactly 0 is
\* settled without a failure and leaves every holding as it was, whatever the proposer
\* and the accepter hold of those categories.
C21_ZeroAmountNeedsNoHolding ==
    [][(/\ pc = "settle"
        /\ Len(accepted_keys(trade_acceptances, iter_order)) = 1
        /\ OnlyZeroAmounts(FirstAccepted))
          => (pc' = "rounds" /\ players' = players)]_vars

\* past_trades with the trades of one more turn.
Archived(past, turn, trades) ==
    [t \in DOMAIN past \cup {turn} |-> IF t = turn THEN trades ELSE past[t]]

\* C22 (trade archive, as claimed): when play() has returned, current_trades is empty
\* and past_trades holds, for every turn with a settled trade and for no other, the
\* trades of that turn.
C22_ArchivedAtTermination ==
    pc = "done" =>
        /\ current_trades = <<>>
        /\ \A t \in DOMAIN past_trades : Len(past_trades[t]) > 0 /\ t < current_turn

\* C22 (trade archive, amended): a settlement appends its trades to current_trades in
\* settlement order, the end of a turn moves a non-empty current_trades to
\* past_trades[current_turn] and nothing else changes either; so when play() has
\* returned, past_trades holds the trades of every completed turn that settled one and
\* has no entry for another turn, and current_trades is empty unless the game ended by
\* a victory in a later round of a turn, whose trades are then still in current_trades.
C22_ArchivedUnlessVictory ==
    [][/\ (pc = "settle" /\ pc' = "rounds")
            => /\ current_trades' =
                     current_trades \o accepted_trades(trade_acceptances, iter_order)
               /\ past_trades' = past_trades
       /\ (pc = "end_turn" /\ pc' = "turns")
            => /\ current_trades' = <<>>
               /\ past_trades' = IF Len(current_trades) > 0
                                 THEN Archived(past_trades, current_turn, current_trades)
                                 ELSE past_trades
       /\ ~(pc = "settle" /\ pc' = "rounds") /\ ~(pc = "end_turn" /\ pc' = "turns")
            => UNCHANGED <<current_trades, past_trades>>
       /\ pc' = "done"
            => /\ \A t \in DOMAIN past_trades : Len(past_trades[t]) > 0 /\ t < current_turn
               /\ Len(current_trades) > 0
                     => (pc = "rounds" /\ current_round > 0 /\ VictoryReached)]_vars

\* The deck ran out in a game whose first turn settled a trade, now archived.
C22_Witness ==
    /\ pc = "done"
    /\ Len(deck) = 0
    /\ current_trades = <<>>
    /\ 0 \in DOMAIN past_trades
    /\ Len(past_trades[0]) > 0

\* C24 (even-round addressee): every proposal answered on an even round is filed under
\* a non-lead player, names that player as its accepter and the lead as its proposer,
\* so that the player asked is the one whose holdings the settlement changes.
C24_AddresseeIsAccepter ==
    (pc = "settle" /\ current_round % 2 = 0) =>
        \A k \in DOMAIN current_trade_proposals :
            /\ k # lead
            /\ k \in DOMAIN decisions
            /\ current_trade_proposals[k].accepter = k
            /\ current_trade_proposals[k].proposer = lead

\* C25 (lead rotation): the lead is a seat of the table and equals current_turn modulo
\* the number of players; it only changes at the end of a turn, by one seat.
C25_LeadIsTurnModPlayers ==
    [][/\ 0 <= lead' /\ lead' < NumPlayers
       /\ lead' = current_turn' % NumPlayers
       /\ lead = current_turn % NumPlayers
       /\ lead' # lead => (pc = "end_turn" /\ lead' = (lead + 1) % NumPlayers
                              /\ current_turn' = current_turn + 1)
       /\ current_turn' # current_turn => pc = "end_turn"]_vars

\* Two players have each led a turn and the lead is back at seat 0.
C25_Witness ==
    /\ NumPlayers = 2
    /\ current_turn = 2
    /\ lead = 0

\* C23 (two rounds, as claimed): on an even round every non-lead player is asked to
\* accept or reject.
C23_EveryNonLeadResponds ==
    [][(pc = "accept" /\ current_round % 2 = 0 /\ pc' = "settle")
          => (Seats \ {lead}) \subseteq DOMAIN decisions']_vars

\* C23 (two rounds, amended): rounds alternate; on an even round the proposals are
\* the lead's and exactly the players a proposal is filed under are asked to accept or
\* reject; on an odd round every non-lead player, and never the lead, can have its
\* proposal collected, and the lead alone answers.
C23_TwoRoundsAskEverySeat ==
    [][/\ (pc = "settle" /\ pc' = "rounds") => current_round' = current_round + 1
       /\ (pc = "accept" /\ current_round % 2 = 0 /\ pc' = "settle")
            => DOMAIN decisions' = DOMAIN current_trade_proposals
       /\ (pc = "accept" /\ current_round % 2 # 0 /\ pc' = "settle")
            => (decisions' = EmptyMap /\ trade_acceptances' \in accept_trades_as_lead)
       /\ (pc = "rounds" /\ current_round % 2 # 0 /\ pc' # "done")
            => /\ DOMAIN current_trade_proposals' \subseteq Seats \ {lead}
               /\ n_proposed < MaxProposed =>
                     \A p \in Seats \ {lead} :
                         \E t \in Trades(p, lead) :
                             ENABLED (ProposeAsNonLead
                                        /\ current_trade_proposals' = [k \in {p} |-> t])
       /\ (pc = "rounds" /\ current_round % 2 = 0 /\ pc' # "done")
            => \A k \in DOMAIN current_trade_proposals' :
                   current_trade_proposals'[k].proposer = lead]_vars

\* In a game of three, the lead addressed player 1 only, and only player 1 was asked.
C23_Witness ==
    /\ NumPlayers = 3
    /\ pc = "settle"
    /\ current_round % 2 = 0
    /\ DOMAIN current_trade_proposals = {1}
    /\ DOMAIN decisions = {1}

\* The number of true entries among the first n of a list of booleans.
TrueEntries(bs, n) == Cardinality({i \in 1..Min(Len(bs), n) : bs[i]})

\* C27 (short acceptance list): on an odd round end_round pairs the lead's booleans
\* with the proposals as far as both go: it settles as many trades as there are true
\* entries among the paired ones, never more than the list has true entries, ignores
\* surplus booleans, discards every other proposal, and fails only on the holding
\* check of a trade it settles, never on the lengths.
C27_ShortAcceptanceList ==
    [][(pc = "settle" /\ current_round % 2 # 0) =>
          LET k     == Cardinality(DOMAIN current_trade_proposals)
              pairs == TrueEntries(trade_acceptances, k)
          IN /\ pc' \in {"rounds", "failed"}
             /\ pairs = 0 => pc' = "rounds"
             /\ pc' = "rounds" =>
                   /\ Len(current_trades') = Len(current_trades) + pairs
                   /\ Len(current_trades') - Len(current_trades)
                         <= TrueEntries(trade_acceptances, Len(trade_acceptances))
                   /\ Len(settled') = pairs
                   /\ \A i \in 1..Len(settled') :
                         \E j \in 1..Min(Len(trade_acceptances), k) :
                             trade_acceptances[j] /\ iter_order[j] = settled'[i]
                   /\ Cardinality(DOMAIN current_trade_proposals') = 0]_vars

\* The lead answered two proposals with the single boolean true.
C27_Witness ==
    /\ pc = "settle"
    /\ current_round % 2 # 0
    /\ Cardinality(DOMAIN current_trade_proposals) = 2
    /\ trade_acceptances = <<TRUE>>

\* C26 (PlayerNoTrades terminates): with every seat a PlayerNoTrades and
\* max_turns >= 0, every turn that reaches end_lead_turn does so at round 2 with
\* nothing settled, and play eventually stops and returns a GameResult.
C26_NoTradesPlayTerminates ==
    rules.max_turns >= 0 =>
        /\ [](pc = "end_turn" => (current_round = 2 /\ current_trades = <<>>))
        /\ [](pc \in {"rounds", "accept", "settle"} => current_round <= 2)
        /\ <>(pc = "done" /\ result # NoResult)

\* A game that completed a turn without victory, went on, and returned.
C26_Witness ==
    /\ rules.max_turns >= 0
    /\ pc = "done"
    /\ result # NoResult
    /\ current_turn >= 1

====
